---- MODULE Spec2Model ----
(***************************************************************************)
(* Model of format_usb_gui.py: the Tk foreground thread (handlers and      *)
(* callbacks posted with root.after), the background worker threads that   *)
(* the handlers start, and the external tools they drive.                  *)
(*                                                                         *)
(* Of the text log, the model keeps the success and failure messages       *)
(* handed to log_write during the current operation, as a set; progress    *)
(* updates and the other posted callbacks travel through the after-queue   *)
(* as in the program.                                                      *)
(***************************************************************************)
EXTENDS Integers, Sequences, FiniteSets, TLC

(* ------------------------------ bounds --------------------------------- *)
\* operations (worker threads) started in one run
MaxOps == 2
\* output lines read from a tool in one progress loop
MaxLines == 2
\* progress lines read from pv or dd in one write
MaxWriteLines == 1
\* 4 MiB chunks read by compute_iso_sha256
MaxChunks == 1

(* ------------------------- devices and lsblk --------------------------- *)
Part(n) == [name |-> n, type |-> "part", children |-> <<>>]
\* a disk with one partition, a disk without children
DiskP == [name |-> "sda", type |-> "disk", children |-> <<Part("sda1")>>]
DiskN == [name |-> "sdb", type |-> "disk", children |-> <<>>]
NoDev == [name |-> "", type |-> "", children |-> <<>>]

LSBLK_CMD ==
  <<"lsblk", "-J", "-o", "NAME,KNAME,SIZE,MODEL,MOUNTPOINT,TYPE,RM">>

\* what running LSBLK_CMD can come to: the tool is absent, it exits with an
\* error, its output is not JSON, or it prints a device tree
LsblkFailures == {"absent", "exit", "malformed"}
LsblkOutputs ==
  { [kind |-> k, tree |-> <<>>] : k \in LsblkFailures }
    \cup { [kind |-> "ok", tree |-> <<DiskP, DiskN>>] }

\* the exception subprocess.check_output or json.loads raises
lsblk_exception(kind) ==
  CASE kind = "absent" -> "FileNotFoundError"
    [] kind = "exit" -> "CalledProcessError"
    [] kind = "malformed" -> "JSONDecodeError"
    [] OTHER -> ""

RECURSIVE walk(_)
walk(nodes) ==
  IF nodes = <<>> THEN <<>>
  ELSE LET n == Head(nodes) IN
       (IF n.type = "disk" THEN <<n>> ELSE <<>>)
         \o walk(n.children) \o walk(Tail(nodes))

\* a handler that catches the error exit of the tool only
get_block_devices_except_cpe(e) == e = "CalledProcessError"

\* "except Exception" around check_output and json.loads
get_block_devices_except(e) ==
  e \in {"FileNotFoundError", "CalledProcessError", "JSONDecodeError"}

\* get_block_devices: (devices, err), or the exception that leaves it
get_block_devices(out) ==
  LET e == lsblk_exception(out.kind) IN
  IF e = ""
    THEN [devices |-> walk(out.tree), err |-> FALSE, raised |-> ""]
  ELSE IF get_block_devices_except(e)
    THEN [devices |-> <<>>, err |-> TRUE, raised |-> ""]
  ELSE [devices |-> <<>>, err |-> FALSE, raised |-> e]

device_display(dev) == dev.name

\* names of the children of type "part", in order
RECURSIVE part_names(_)
part_names(parts) ==
  IF parts = <<>> THEN <<>>
  ELSE (IF Head(parts).type = "part" THEN <<Head(parts).name>> ELSE <<>>)
         \o part_names(Tail(parts))

\* the name find_first_partition is called by, but the module defines no
\* such function: every call raises NameError
find_first_partition(devname) == "NameError"

\* f"/dev/{name}"
DevPath(n) ==
  CASE n = "sda" -> "/dev/sda" [] n = "sda1" -> "/dev/sda1"
    [] n = "sdb" -> "/dev/sdb" [] n = "sdb1" -> "/dev/sdb1"
    [] OTHER -> "/dev/"

(* --------------------------- form contents ----------------------------- *)
\* detect_filesystems on a host with mkfs.ext4 and mkfs.vfat
fsmap == [k \in {"ext4", "vfat (FAT32)"} |->
            IF k = "ext4" THEN "mkfs.ext4" ELSE "mkfs.vfat"]
part_label_map == [k \in {"msdos (MBR)", "gpt"} |->
                     IF k = "gpt" THEN "gpt" ELSE "msdos"]
\* label entry contents after strip(): blank, short, longer than 32
Labels == {"", "USB", "a-label-of-thirty-three-characters"}
LabelLen(l) == IF l = "" THEN 0 ELSE IF l = "USB" THEN 3 ELSE 33

\* files the file dialog can return ("" when cancelled)
IsoPaths == {"", "ubuntu.iso", "missing.iso"}
WinIsoPaths == {"", "Windows11.iso", "other.iso", "missing.iso"}
isfile(p) == p \in {"ubuntu.iso", "Windows11.iso", "other.iso"}
detect_windows_iso(p) == p = "Windows11.iso"

\* a byte count, kept as whole GiB and remaining bytes (rest < 1024^3)
Size(gib, rest) == [gib |-> gib, rest |-> rest]
NoSize == Size(0, 0)
Less(a, b) == a.gib < b.gib \/ (a.gib = b.gib /\ a.rest < b.rest)
\* 4 * 1024 * 1024 * 1024
FourGiB == Size(4, 0)
\* os.path.getsize of the image: 4 GiB, one byte more, 5 GiB
IsoSizes == {Size(4, 0), Size(4, 1), Size(5, 0)}

(* ------------------------------ state ---------------------------------- *)
VARIABLES
  operation_in_progress,  \* App.operation_in_progress
  btn,                    \* state of format_btn, iso_btn, windows_iso_btn
  progress,               \* value shown by the progress bar
  has_devs, devs,         \* whether self.devs exists, and its value
  lb,                     \* rows of the device listbox
  afterq,                 \* callbacks posted with root.after(0, ...), FIFO
  w,                      \* the worker thread of the operation in flight
  mount_threads,          \* live post-write mount threads
  cmds,                   \* external commands issued by the running worker
  called,                 \* functions the running worker has entered
  sink,                   \* last value the operation passed to set_progress
  log,                    \* outcome messages the running worker has logged
  ops,                    \* operations started so far
  worker_wrote,           \* attributes of App the running worker has assigned
  ui_cmd,                 \* last external command run on the foreground thread
  call                    \* a function applied on its own: name, arguments, value

ui == <<operation_in_progress, btn, progress, has_devs, devs, lb>>
vars == <<operation_in_progress, btn, progress, has_devs, devs, lb,
          afterq, w, mount_threads, cmds, called, sink, log, ops,
          worker_wrote, ui_cmd, call>>

aux == <<worker_wrote, ui_cmd, call>>

Buttons == {"format_btn", "iso_btn", "windows_iso_btn"}
AllButtons(s) == [b \in Buttons |-> s]

Idle == [pc |-> "idle", op |-> "", dev |-> NoDev, action |-> "",
         target |-> "", fs_key |-> "", label |-> "", label_type |-> "",
         iso |-> "", iso_size |-> NoSize, newp |-> "", digest |-> "",
         verified |-> "", mounted |-> {}, pv_rc |-> "",
         pct |-> 0, n |-> 0, exc |-> ""]

(* ------------------------ progress and posting ------------------------- *)
\* a set_progress that posts the value as it comes
Clamp_none(pct) == pct

\* App.set_progress: clamp, then post _set
Clamp(pct) == IF pct < 0 THEN 0 ELSE IF pct > 100 THEN 100 ELSE pct
Cb(fn, pct, dev) == [fn |-> fn, pct |-> pct, dev |-> dev]
set_progress(q, pct) == Append(q, Cb("_set", Clamp(pct), NoDev))
RECURSIVE set_progress_all(_, _)
set_progress_all(q, pcts) ==
  IF pcts = <<>> THEN q
  ELSE set_progress_all(set_progress(q, Head(pcts)), Tail(pcts))

\* no value reported yet
NoReport == -1

\* the worker reports the values pcts, in order
Report(pcts) ==
  /\ afterq' = set_progress_all(afterq, pcts)
  /\ sink' = IF pcts = <<>> THEN sink ELSE pcts[Len(pcts)]
Cmd(argvs) == cmds' = cmds \o argvs
Log(tags) == log' = log \cup tags

(* ------------------------------- Init ---------------------------------- *)
\* App.refresh applied to the listbox rows and self.devs
RowsOf(ds) == [i \in 1..Len(ds) |-> device_display(ds[i])]
refresh_lb(r) ==
  IF r.raised # "" THEN <<>>
  ELSE IF r.err THEN <<"[ERROR] Unable to retrieve device list">>
  ELSE IF r.devices = <<>> THEN <<"[No removable devices detected]">>
  ELSE RowsOf(r.devices)

\* no function is applied on its own
NoCall == [fn |-> "", args |-> <<>>, ret |-> <<>>]

InitApp ==
  /\ operation_in_progress = FALSE
  /\ btn = AllButtons("normal")
  /\ progress = 0
  /\ afterq = <<>>
  /\ w = Idle
  /\ mount_threads = 0
  /\ cmds = <<>>
  /\ called = {}
  /\ sink = NoReport
  /\ log = {}
  /\ ops = 0
  /\ worker_wrote = {}
  \* __init__ ends with self.refresh()
  /\ ui_cmd = LSBLK_CMD
  /\ \E out \in LsblkOutputs :
       LET r == get_block_devices(out) IN
       /\ lb = refresh_lb(r)
       /\ has_devs = (~r.err /\ r.raised = "")
       /\ devs = IF r.err \/ r.raised # "" THEN <<>> ELSE r.devices

Init == InitApp /\ call = NoCall

(* ------------------------------ refresh -------------------------------- *)
refresh ==
  /\ \E out \in LsblkOutputs :
       LET r == get_block_devices(out) IN
       /\ lb' = refresh_lb(r)
       /\ has_devs' = (has_devs \/ (~r.err /\ r.raised = ""))
       /\ devs' = IF r.err \/ r.raised # "" THEN devs ELSE r.devices
  /\ ui_cmd' = LSBLK_CMD
  /\ UNCHANGED <<operation_in_progress, btn, progress, afterq, w,
                 mount_threads, cmds, called, sink, log, ops, worker_wrote,
                 call>>

(* ------------------------- operation handlers -------------------------- *)
\* a handler that does not look at the flag
Busy_off == FALSE

\* the test the three handlers open with
Busy == operation_in_progress

\* "Another operation is already running": the handler shows the warning
\* and returns once it is dismissed
Refuse == UNCHANGED vars

\* every other early return of a handler (nothing selected, a dialog
\* cancelled, a bad file or label) and the exception of self.devs[idx]
\* leave the state as it is
Return == UNCHANGED vars

\* self.devs[idx] for the selected row: AttributeError when self.devs was
\* never assigned, IndexError when the row has no device behind it
NoSuchDev(sel) == ~has_devs \/ sel > Len(devs)

\* the handler commits: flag, buttons, progress 0, worker thread
Start(job) ==
  /\ ops < MaxOps
  /\ operation_in_progress' = TRUE
  /\ btn' = AllButtons("disabled")
  /\ afterq' = set_progress(afterq, 0)
  /\ sink' = 0
  /\ log' = {}
  /\ cmds' = <<>>
  /\ called' = {}
  /\ ops' = ops + 1
  /\ w' = job
  /\ UNCHANGED <<progress, has_devs, devs, lb, mount_threads, aux>>

\* a device without partitions is formatted as it is
format_action_whole(dev, q) ==
  LET pn == part_names(dev.children) IN
  IF pn = <<>> THEN [action |-> "format_partition", target |-> dev.name]
  ELSE IF q = "cancel" THEN [action |-> "cancel", target |-> ""]
  ELSE IF q = "yes" THEN [action |-> "format_partition", target |-> pn[1]]
  ELSE [action |-> "repartition_and_format", target |-> ""]

\* the branch of on_format that picks what to do with the device;
\* q is the answer to the "Partition Detected" question
format_action(dev, q) ==
  LET parts == dev.children
      pn == part_names(parts)
  IN IF parts # <<>>
       THEN IF pn # <<>>
              THEN IF q = "cancel" THEN [action |-> "cancel", target |-> ""]
                   ELSE IF q = "yes"
                     THEN [action |-> "format_partition", target |-> pn[1]]
                   ELSE [action |-> "repartition_and_format", target |-> ""]
              ELSE [action |-> "None", target |-> ""]
       ELSE [action |-> "create_and_format", target |-> ""]

on_format ==
  IF Busy THEN Refuse
  ELSE \E sel \in 0..Len(lb) :
    IF sel = 0 \/ NoSuchDev(sel) THEN Return
    ELSE \E fs_key \in DOMAIN fsmap, label \in Labels :
      IF LabelLen(label) > 32 THEN Return
      ELSE \E yes \in BOOLEAN :
        IF ~yes THEN Return
        ELSE \E q \in {"yes", "no", "cancel"} :
          LET dev == devs[sel]
              a == format_action(dev, q)
          IN IF a.action = "cancel" THEN Return
             ELSE Start([Idle EXCEPT !.pc = "fmt_begin", !.op = "format",
                           !.dev = dev, !.action = a.action,
                           !.target = a.target, !.fs_key = fs_key,
                           !.label = label])

on_write_iso ==
  IF Busy THEN Refuse
  ELSE \E sel \in 0..Len(lb) :
    IF sel = 0 \/ NoSuchDev(sel) THEN Return
    ELSE \E yes \in BOOLEAN, iso_path \in IsoPaths :
      IF ~yes \/ iso_path = "" \/ ~isfile(iso_path) THEN Return
      ELSE \* proceed_with_iso
           Start([Idle EXCEPT !.pc = "iso_sha", !.op = "iso",
                    !.dev = devs[sel], !.iso = iso_path])

on_write_windows_iso ==
  IF Busy THEN Refuse
  ELSE \E sel \in 0..Len(lb) :
    IF sel = 0 \/ NoSuchDev(sel) THEN Return
    ELSE \E yes \in BOOLEAN, iso_path \in WinIsoPaths, anyway \in BOOLEAN :
      IF ~yes \/ iso_path = "" \/ ~isfile(iso_path) THEN Return
      ELSE IF ~detect_windows_iso(iso_path) /\ ~anyway THEN Return
      ELSE Start([Idle EXCEPT !.pc = "win_begin", !.op = "windows",
                    !.dev = devs[sel], !.iso = iso_path])

(* --------------------------- worker helpers ---------------------------- *)
\* a worker whose cleanup runs on the normal path only
worker_exception_pc_dies == "idle"

\* where the worker goes when an exception reaches its try block:
\* "except Exception" logs it and the "finally" clause follows
worker_exception_pc == "w_finally"

FailureTag(op) ==
  IF op = "format" THEN "Format operation failed"
  ELSE IF op = "iso" THEN "ISO write failed"
  ELSE "Windows ISO write failed"

\* an exception raised in fn propagates to the worker function
Raised(fn) == [w EXCEPT !.pc = worker_exception_pc, !.exc = fn]

\* unmount_children: what lsblk says of the device
UnmountEnv == {"raise", "none", "mounted"}
MountedNode(devname) == IF devname = "sda" THEN "sda1" ELSE devname
unmount_children(devname, env) ==
  << <<"lsblk", "-J", DevPath(devname), "-o", "NAME,MOUNTPOINT">> >>
    \o (IF env = "mounted"
          THEN << <<"sudo", "umount", DevPath(MountedNode(devname))>> >>
          ELSE <<>>)

\* a probe that runs blockdev whatever partprobe did
probe_partition_table_both(devpath, pp, ppx, bd, bdx) ==
  [cmds |-> << <<"sudo", "partprobe", devpath>>,
               <<"sudo", "blockdev", "--rereadpt", devpath>> >>,
   by |-> "blockdev", ret |-> TRUE]

\* probe_partition_table: pp/bd say whether shutil.which finds partprobe/
\* blockdev, ppx/bdx whether running them raises; returns the commands run
\* and the mechanism that completed
probe_partition_table(devpath, pp, ppx, bd, bdx) ==
  LET c1 == IF pp THEN << <<"sudo", "partprobe", devpath>> >> ELSE <<>>
      c2 == IF bd THEN << <<"sudo", "blockdev", "--rereadpt", devpath>> >>
            ELSE <<>>
  IN IF pp /\ ~ppx THEN [cmds |-> c1, by |-> "partprobe", ret |-> TRUE]
     ELSE IF bd /\ ~bdx
       THEN [cmds |-> c1 \o c2, by |-> "blockdev", ret |-> TRUE]
     ELSE [cmds |-> c1 \o c2, by |-> "sleep", ret |-> TRUE]

\* str.startswith on the filesystem keys
StartsWith(k, p) ==
  <<k, p>> \in { <<"ext4", "ext4">>, <<"vfat (FAT32)", "vfat">>,
                 <<"exfat", "exfat">>, <<"ntfs", "ntfs">>, <<"xfs", "xfs">>,
                 <<"btrfs", "btrfs">>, <<"ext4dev", "ext4">> }
\* str.split(): the whitespace-separated words of a filesystem key
split(k) ==
  CASE k = "vfat (FAT32)" -> <<"vfat", "(FAT32)">>
    [] k = "f2fs (flash)" -> <<"f2fs", "(flash)">>
    [] k = "" -> <<>>
    [] OTHER -> <<k>>
\* fstype_key.split()[0]
FirstWord(k) == split(k)[1]

\* a builder that passes the label whatever it is
mkfs_label_args_always(flag, label) == <<flag, label>>

\* "if label: args += [flag, label]"
mkfs_label_args(flag, label) ==
  IF label # "" THEN <<flag, label>> ELSE <<>>

\* an exception leaves the function instead of a value
Raise(e) == <<"raise", e>>

build_mkfs_command(mkcmd, fstype_key, devpath, label) ==
  LET L(flag) == mkfs_label_args(flag, label) IN
  IF StartsWith(fstype_key, "ext4")
    THEN <<"sudo", mkcmd, "-F">> \o L("-L") \o <<devpath>>
  ELSE IF StartsWith(fstype_key, "vfat")
    THEN <<"sudo", mkcmd, "-F", "32">> \o L("-n") \o <<devpath>>
  ELSE IF StartsWith(fstype_key, "exfat")
    THEN <<"sudo", mkcmd>> \o L("-n") \o <<devpath>>
  ELSE IF StartsWith(fstype_key, "ntfs")
    THEN <<"sudo", mkcmd>> \o L("-L") \o <<devpath>>
  ELSE IF StartsWith(fstype_key, "xfs")
    THEN <<"sudo", mkcmd, "-f">> \o L("-L") \o <<devpath>>
  ELSE IF StartsWith(fstype_key, "btrfs")
    THEN <<"sudo", mkcmd, "-f">> \o L("-L") \o <<devpath>>
  ELSE IF split(fstype_key) = <<>> THEN Raise("IndexError")
  ELSE <<"sudo", "mkfs", "-t", FirstWord(fstype_key), devpath>>

\* outcome of subprocess.run(..., check=True): exit 0, CalledProcessError,
\* or another exception (the tool cannot be started)
RunOutcomes == {"ok", "nonzero", "oserror"}

(* ----------------------- on_format: the worker ------------------------- *)
\* worker(): branch on the action chosen by the handler
fmt_begin ==
  /\ w.pc = "fmt_begin"
  /\ IF w.action = "format_partition"
       THEN w' = [w EXCEPT !.pc = "rf_begin"]
       ELSE \E plv \in DOMAIN part_label_map :
              w' = [w EXCEPT !.pc = "csp_unmount",
                             !.label_type = part_label_map[plv]]
  /\ UNCHANGED <<ui, afterq, mount_threads, cmds, called, sink, log, ops, aux>>

\* a create_single_partition that goes on after parted has failed
csp_failed_pc_goes_on(next) == next

\* "except subprocess.CalledProcessError": log and return None to worker();
\* next is the step that follows when parted succeeds
csp_failed_pc(next) == "fmt_check_newp"

\* create_single_partition: unmount the children, settle
csp_unmount ==
  /\ w.pc = "csp_unmount"
  /\ \E env \in UnmountEnv : Cmd(unmount_children(w.dev.name, env))
  /\ called' = called \cup {"create_single_partition"}
  /\ w' = [w EXCEPT !.pc = "csp_mklabel"]
  /\ UNCHANGED <<ui, afterq, mount_threads, sink, log, ops, aux>>

\* progress 20, parted mklabel
csp_mklabel ==
  /\ w.pc = "csp_mklabel"
  /\ Report(<<20>>)
  /\ Cmd(<< <<"sudo", "parted", "-s", DevPath(w.dev.name), "mklabel",
              w.label_type>> >>)
  /\ \E r \in RunOutcomes :
       CASE r = "ok" -> w' = [w EXCEPT !.pc = "csp_mkpart"] /\ UNCHANGED log
         [] r = "nonzero" ->
              /\ w' = [w EXCEPT !.pc = csp_failed_pc("csp_mkpart"), !.newp = ""]
              /\ Log({"Partitioning failed"})
         [] OTHER ->
              /\ w' = Raised("create_single_partition")
              /\ Log({FailureTag(w.op)})
  /\ UNCHANGED <<ui, mount_threads, called, ops, aux>>

\* progress 40, parted mkpart
csp_mkpart ==
  /\ w.pc = "csp_mkpart"
  /\ Report(<<40>>)
  /\ Cmd(<< <<"sudo", "parted", "-s", DevPath(w.dev.name), "mkpart",
              "primary", "0%", "100%">> >>)
  /\ \E r \in RunOutcomes :
       CASE r = "ok" -> w' = [w EXCEPT !.pc = "csp_probe"] /\ UNCHANGED log
         [] r = "nonzero" ->
              /\ w' = [w EXCEPT !.pc = csp_failed_pc("csp_probe"), !.newp = ""]
              /\ Log({"Partitioning failed"})
         [] OTHER ->
              /\ w' = Raised("create_single_partition")
              /\ Log({FailureTag(w.op)})
  /\ UNCHANGED <<ui, mount_threads, called, ops, aux>>

\* probe_partition_table, then the result of find_first_partition
csp_probe ==
  /\ w.pc = "csp_probe"
  /\ \E pp \in BOOLEAN, ppx \in BOOLEAN, bd \in BOOLEAN, bdx \in BOOLEAN :
       Cmd(probe_partition_table(DevPath(w.dev.name), pp, ppx, bd, bdx).cmds)
  /\ called' = called \cup {"probe_partition_table"}
  /\ w' = [w EXCEPT !.pc = "csp_find"]
  /\ UNCHANGED <<ui, afterq, mount_threads, sink, log, ops, aux>>

csp_find ==
  /\ w.pc = "csp_find"
  /\ called' = called \cup {"find_first_partition"}
  /\ LET new == find_first_partition(w.dev.name) IN
     IF new = "NameError"
       THEN /\ w' = Raised("find_first_partition")
            /\ Log({FailureTag(w.op)})
            /\ UNCHANGED <<afterq, sink>>
     ELSE IF new # ""
       THEN /\ w' = [w EXCEPT !.pc = "fmt_check_newp", !.newp = new]
            /\ Report(<<50>>)
            /\ UNCHANGED log
     ELSE /\ w' = [w EXCEPT !.pc = "fmt_check_newp", !.newp = ""]
          /\ Log({"Failed to detect new partition"})
          /\ UNCHANGED <<afterq, sink>>
  /\ UNCHANGED <<ui, mount_threads, cmds, ops, aux>>

\* a worker that does not test the value of create_single_partition
after_create_pc_unchecked(newp) == "rf_begin"

\* what worker() does with the value of create_single_partition
after_create_pc(newp) == IF newp = "" THEN "w_finally" ELSE "rf_begin"

fmt_check_newp ==
  /\ w.pc = "fmt_check_newp"
  /\ IF after_create_pc(w.newp) = "w_finally"
       THEN /\ afterq' = Append(afterq, Cb("showerror", 0, NoDev))
            /\ Log({"Failed to create partition"})
            /\ w' = [w EXCEPT !.pc = "w_finally"]
       ELSE /\ w' = [w EXCEPT !.pc = after_create_pc(w.newp),
                              !.target = w.newp]
            /\ UNCHANGED <<afterq, log>>
  /\ UNCHANGED <<ui, mount_threads, cmds, called, sink, ops, aux>>

\* run_format: progress 10, unmount the children
rf_begin ==
  /\ w.pc = "rf_begin"
  /\ called' = called \cup {"run_format"}
  /\ Report(<<10>>)
  /\ \E env \in UnmountEnv : Cmd(unmount_children(w.target, env))
  /\ w' = [w EXCEPT !.pc = "rf_popen"]
  /\ UNCHANGED <<ui, mount_threads, log, ops, aux>>

\* build the command, progress 60, start mkfs
rf_popen ==
  /\ w.pc = "rf_popen"
  /\ Cmd(<< build_mkfs_command(fsmap[w.fs_key], w.fs_key,
                               DevPath(w.target), w.label) >>)
  /\ \E started \in BOOLEAN :
       IF started
         THEN /\ Report(<<60>>)
              /\ w' = [w EXCEPT !.pc = "rf_loop", !.pct = 60, !.n = 0]
              /\ UNCHANGED log
         ELSE /\ Report(<<60, 100>>)
              /\ Log({"Error running format"})
              /\ w' = [w EXCEPT !.pc = "fmt_success"]
  /\ UNCHANGED <<ui, mount_threads, called, ops, aux>>

\* one turn of the read loop: readline has returned (a line or "") and the
\* process still runs
rf_loop ==
  /\ w.pc = "rf_loop"
  /\ w.n < MaxLines
  /\ LET pct == IF w.pct + 1 < 95 THEN w.pct + 1 ELSE 95 IN
     /\ Report(<<pct>>)
     /\ w' = [w EXCEPT !.pct = pct, !.n = w.n + 1]
  /\ UNCHANGED <<ui, mount_threads, cmds, called, log, ops, aux>>

\* a run_format that reports 100 on success only
rf_exit_pcts_on_success(r) == IF r = "zero" THEN <<100>> ELSE <<>>

\* what run_format reports when mkfs has exited with code zero or non-zero,
\* or when reading its output raised
rf_exit_pcts(r) == <<100>>

\* the process has exited (or reading its output raised)
rf_exit ==
  /\ w.pc = "rf_loop"
  /\ \E r \in {"zero", "nonzero", "exception"} :
       /\ Report(rf_exit_pcts(r))
       /\ Log({ IF r = "zero" THEN "Format completed successfully"
                ELSE IF r = "nonzero" THEN "Format failed with exit code"
                ELSE "Error running format" })
  /\ w' = [w EXCEPT !.pc = "fmt_success", !.pct = 0, !.n = 0]
  /\ UNCHANGED <<ui, mount_threads, cmds, called, ops, aux>>

\* back in worker(): log_success
fmt_success ==
  /\ w.pc = "fmt_success"
  /\ Log({"Successfully formatted"})
  /\ w' = [w EXCEPT !.pc = "w_finally"]
  /\ UNCHANGED <<ui, afterq, mount_threads, cmds, called, sink, ops, aux>>

\* the finally clause of the three workers: post finish; the thread ends
\* and the records of what it did are dropped
FinishFn(op) ==
  IF op = "format" THEN "finish"
  ELSE IF op = "iso" THEN "finish_all" ELSE "finish_windows"

w_finally ==
  /\ w.pc = "w_finally"
  /\ afterq' = Append(afterq, Cb(FinishFn(w.op), 0, NoDev))
  /\ w' = Idle
  /\ sink' = NoReport
  /\ cmds' = <<>>
  /\ called' = {}
  /\ log' = {}
  /\ worker_wrote' = {}
  /\ UNCHANGED <<ui, mount_threads, ops, ui_cmd, call>>

(* ------------------------- checksum verification ----------------------- *)
\* a line of text: its first 64-hex token ("" when it has none) and whether
\* it mentions the image file name
Line(h, named) == [hash |-> h, named |-> named]
\* the digest of the image, and another 64-hex token
HIso == "h_iso"
HOther == "h_other"

RECURSIVE FirstHash(_)
FirstHash(txt) ==
  IF txt = <<>> THEN ""
  ELSE IF Head(txt).hash # "" THEN Head(txt).hash
  ELSE FirstHash(Tail(txt))

RECURSIVE FirstNamedHash(_)
FirstNamedHash(txt) ==
  IF txt = <<>> THEN ""
  ELSE IF Head(txt).named /\ Head(txt).hash # "" THEN Head(txt).hash
  ELSE FirstNamedHash(Tail(txt))

Doc(ok, txt) == [ok |-> ok, txt |-> txt]

\* what the network answers: the search request fails, or a page comes back
\* together with the documents behind its candidate links
OnlineEnvs ==
  { [ok |-> FALSE, page |-> <<>>, docs |-> <<>>],
    [ok |-> TRUE, page |-> <<>>, docs |-> <<>>],
    [ok |-> TRUE, page |-> <<Line(HOther, FALSE)>>, docs |-> <<>>],
    [ok |-> TRUE, page |-> <<Line("", TRUE)>>,
     docs |-> << Doc(FALSE, <<>>),
                 Doc(TRUE, <<Line(HOther, FALSE), Line(HIso, TRUE)>>) >>] }

\* the scan of the candidate documents, in order
RECURSIVE scan_docs(_)
scan_docs(docs) ==
  IF docs = <<>> THEN ""
  ELSE LET d == Head(docs) IN
       IF d.ok /\ FirstNamedHash(d.txt) # "" THEN FirstNamedHash(d.txt)
       ELSE IF d.ok /\ FirstHash(d.txt) # "" THEN FirstHash(d.txt)
       ELSE scan_docs(Tail(docs))

\* fetch_online_sha256: the digest found, or "" for None; it never raises
fetch_online_sha256(env) ==
  IF ~env.ok THEN ""
  ELSE IF FirstHash(env.page) # "" THEN FirstHash(env.page)
  ELSE scan_docs(SubSeq(env.docs, 1, IF Len(env.docs) < 8 THEN Len(env.docs)
                                      ELSE 8))

\* a file next to the image: whether its name looks like a checksum file,
\* whether it can be read, and its text
File(name, looks, readable, txt) ==
  [name |-> name, looks |-> looks, readable |-> readable, txt |-> txt]

\* the directory of the image: the files named <image>.sha256 etc. that
\* exist, whether os.listdir works, and the files it lists
LocalEnvs ==
  { [exact |-> <<>>, listable |-> TRUE, files |-> <<>>],
    [exact |-> <<>>, listable |-> FALSE, files |-> <<>>],
    [exact |-> << File("ubuntu.iso.sha256", TRUE, TRUE,
                       <<Line(HOther, FALSE), Line(HIso, TRUE)>>) >>,
     listable |-> FALSE, files |-> <<>>],
    [exact |-> <<>>, listable |-> TRUE,
     files |-> << File("notes.txt", FALSE, TRUE, <<Line(HIso, TRUE)>>),
                  File("SHA256SUMS.txt", TRUE, FALSE, <<>>),
                  File("sha.sum", TRUE, TRUE, <<Line(HOther, FALSE)>>) >>] }

RECURSIVE looks_like_checksum(_)
looks_like_checksum(files) ==
  IF files = <<>> THEN <<>>
  ELSE (IF Head(files).looks THEN <<Head(files)>> ELSE <<>>)
         \o looks_like_checksum(Tail(files))

RECURSIVE parse_candidates(_)
parse_candidates(cands) ==
  IF cands = <<>> THEN [raised |-> FALSE, file |-> "", hash |-> ""]
  ELSE LET f == Head(cands) IN
       IF f.readable /\ FirstNamedHash(f.txt) # ""
         THEN [raised |-> FALSE, file |-> f.name,
               hash |-> FirstNamedHash(f.txt)]
       ELSE IF f.readable /\ FirstHash(f.txt) # ""
         THEN [raised |-> FALSE, file |-> f.name, hash |-> FirstHash(f.txt)]
       ELSE parse_candidates(Tail(cands))

\* find_checksum_file: (file, hash), ("", "") for (None, None), or the
\* exception of os.listdir, which nothing in the function catches
find_checksum_file(env) ==
  IF env.exact # <<>> THEN parse_candidates(env.exact)
  ELSE IF ~env.listable THEN [raised |-> TRUE, file |-> "", hash |-> ""]
  ELSE parse_candidates(looks_like_checksum(env.files))

\* progress values of compute_iso_sha256 after reading k of n chunks
RECURSIVE chunk_pcts(_, _)
chunk_pcts(k, n) ==
  IF k = 0 THEN <<>> ELSE Append(chunk_pcts(k - 1, n), (k * 100) \div n)

(* ---------------------- on_write_iso: the worker ----------------------- *)
\* compute_iso_sha256: k of the n chunks are read; the read fails when
\* k < n or when the file cannot be opened
iso_sha ==
  /\ w.pc = "iso_sha"
  /\ called' = called \cup {"compute_iso_sha256"}
  /\ \E n \in 0..MaxChunks, k \in 0..MaxChunks, openfail \in BOOLEAN :
       /\ k <= n
       /\ openfail => k = 0
       /\ Report(Append(chunk_pcts(k, n), 100))
       /\ IF k = n /\ ~openfail
            THEN w' = [w EXCEPT !.pc = "iso_online", !.digest = HIso]
            ELSE w' = [w EXCEPT !.pc = "wi_begin", !.digest = ""]
  /\ UNCHANGED <<ui, mount_threads, cmds, log, ops, aux>>

iso_online ==
  /\ w.pc = "iso_online"
  /\ called' = called \cup {"fetch_online_sha256"}
  /\ \E env \in OnlineEnvs :
       LET online_digest == fetch_online_sha256(env) IN
       IF online_digest # ""
         THEN w' = [w EXCEPT !.pc = "wi_begin",
                            !.verified = IF online_digest # w.digest
                                           THEN "online mismatch"
                                           ELSE "online match"]
         ELSE w' = [w EXCEPT !.pc = "iso_local"]
  /\ UNCHANGED <<ui, afterq, mount_threads, cmds, sink, log, ops, aux>>

iso_local ==
  /\ w.pc = "iso_local"
  /\ called' = called \cup {"find_checksum_file"}
  /\ \E env \in LocalEnvs :
       LET r == find_checksum_file(env) IN
       IF r.raised
         THEN /\ w' = Raised("find_checksum_file")
              /\ Log({FailureTag(w.op)})
       ELSE /\ w' = [w EXCEPT !.pc = "wi_begin",
                              !.verified = IF r.file # "" /\ r.hash # ""
                                             THEN IF r.hash # w.digest
                                                    THEN "local mismatch"
                                                    ELSE "local match"
                                             ELSE "no reference"]
            /\ UNCHANGED log
  /\ UNCHANGED <<ui, afterq, mount_threads, cmds, sink, ops, aux>>

OfArg(n) ==
  CASE n = "sda" -> "of=/dev/sda" [] n = "sdb" -> "of=/dev/sdb"
    [] OTHER -> "of=/dev/"
IfArg(p) == IF p = "ubuntu.iso" THEN "if=ubuntu.iso" ELSE "if="

\* write_iso_to_device: the image may be gone by now
wi_begin ==
  /\ w.pc = "wi_begin"
  /\ called' = called \cup {"write_iso_to_device"}
  /\ \E exists \in BOOLEAN, env \in UnmountEnv :
       IF ~exists
         THEN /\ Report(<<100>>)
              /\ Log({"ISO file not found"})
              /\ w' = [w EXCEPT !.pc = "iso_ask", !.verified = "",
                                !.digest = ""]
              /\ UNCHANGED cmds
         ELSE /\ Report(<<5>>)
              /\ Cmd(unmount_children(w.dev.name, env))
              /\ w' = [w EXCEPT !.pc = "wi_popen", !.verified = "",
                                !.digest = ""]
              /\ UNCHANGED log
  /\ UNCHANGED <<ui, mount_threads, ops, aux>>

\* start pv | dd when pv is installed, dd alone otherwise
wi_popen ==
  /\ w.pc = "wi_popen"
  /\ \E use_pv \in BOOLEAN, started \in BOOLEAN :
       /\ Cmd(IF use_pv
                THEN << <<"pv", w.iso>>,
                        <<"sudo", "dd", OfArg(w.dev.name), "bs=4M",
                          "status=progress">> >>
                ELSE << <<"sudo", "dd", IfArg(w.iso), OfArg(w.dev.name),
                          "bs=4M", "status=progress">> >>)
       /\ IF started
            THEN /\ w' = [w EXCEPT !.pc = "wi_loop", !.n = 0]
                 /\ UNCHANGED <<afterq, sink, log>>
            ELSE /\ Report(<<100>>)
                 /\ Log({"Error writing ISO"})
                 /\ w' = [w EXCEPT !.pc = "iso_ask"]
  /\ UNCHANGED <<ui, mount_threads, called, ops, aux>>

\* percentages a progress line can carry: pv prints them, for dd they are
\* int(transferred * 100 / total)
LinePcts == {50, 150}
Min(a, b) == IF a < b THEN a ELSE b

wi_loop ==
  /\ w.pc = "wi_loop"
  /\ w.n < MaxWriteLines
  /\ \E pct \in LinePcts : Report(<<Min(100, pct)>>)
  /\ w' = [w EXCEPT !.n = w.n + 1]
  /\ UNCHANGED <<ui, mount_threads, cmds, called, log, ops, aux>>

\* what is logged once the loop is left: r is the exit of dd (or an
\* exception in the loop), pv_rc the exit of pv, which is not looked at
wi_exit_log(r, pv_rc) ==
  IF r = "zero" THEN "ISO written successfully"
  ELSE IF r = "nonzero" THEN "dd exited with code"
  ELSE "Error writing ISO"

\* dd has exited (or the loop raised); with pv, pv has exited too
wi_exit ==
  /\ w.pc = "wi_loop"
  /\ Report(<<100>>)
  /\ \E r \in {"zero", "nonzero", "exception"}, rc \in {"zero", "nonzero"} :
       LET pv_rc == IF cmds[Len(cmds) - 1] = <<"pv", w.iso>> /\ r # "exception"
                      THEN rc ELSE ""
       IN /\ Log({wi_exit_log(r, pv_rc)})
          /\ w' = [w EXCEPT !.pc = "iso_ask", !.n = 0, !.pv_rc = pv_rc]
  /\ UNCHANGED <<ui, mount_threads, cmds, called, ops, aux>>

\* back in worker_all: post ask_mount
iso_ask ==
  /\ w.pc = "iso_ask"
  /\ afterq' = Append(afterq, Cb("ask_mount", 0, w.dev))
  /\ w' = [w EXCEPT !.pc = "w_finally", !.pv_rc = ""]
  /\ UNCHANGED <<ui, mount_threads, cmds, called, sink, log, ops, aux>>

(* ------------------ on_write_windows_iso: the worker ------------------- *)
\* use_exfat = iso_size > 4 * 1024 * 1024 * 1024
use_exfat(iso_size) == Less(FourGiB, iso_size)

\* fs_type
fs_type(iso_size) == IF use_exfat(iso_size) THEN "exfat" ELSE "vfat (FAT32)"

\* an install that goes to the partition table with the children mounted
win_unmount_skipped(devname, env) == <<>>

\* Step 1: unmount_children(devname, log)
win_unmount(devname, env) == unmount_children(devname, env)

\* an install that goes on after parted has failed
win_partition_failed_pc_goes_on(next) == next

\* "except subprocess.CalledProcessError": log and return to worker();
\* next is the step that follows when parted succeeds
win_partition_failed_pc(next) == "win_success"

\* an install that reports 30 before it looks for the partition
win_checkpoint_skips(step) ==
  CASE step = "unmount" -> 5
    [] step = "table" -> 10
    [] step = "partition" -> 15
    [] OTHER -> 30

\* the value write_windows_iso_to_device reports when it enters a step
win_checkpoint(step) ==
  CASE step = "unmount" -> 5
    [] step = "table" -> 10
    [] step = "partition" -> 15
    [] OTHER -> 20

\* worker(): set the flag, enter write_windows_iso_to_device, read the
\* image size, report 5 and unmount the children
win_begin ==
  /\ w.pc = "win_begin"
  /\ operation_in_progress' = TRUE
  /\ worker_wrote' = worker_wrote \cup {"operation_in_progress"}
  /\ called' = called \cup {"write_windows_iso_to_device"}
  /\ \E sized \in BOOLEAN, iso_size \in IsoSizes, env \in UnmountEnv :
       IF ~sized
         THEN /\ Log({"Error getting ISO size"})
              /\ w' = [w EXCEPT !.pc = "win_success"]
              /\ UNCHANGED <<afterq, sink, cmds>>
         ELSE /\ Report(<<win_checkpoint("unmount")>>)
              /\ Cmd(win_unmount(w.dev.name, env))
              /\ w' = [w EXCEPT !.pc = "win_mklabel", !.iso_size = iso_size,
                                !.fs_key = fs_type(iso_size)]
              /\ UNCHANGED log
  /\ UNCHANGED <<btn, progress, has_devs, devs, lb, mount_threads,
                 ops, ui_cmd, call>>

win_mklabel ==
  /\ w.pc = "win_mklabel"
  /\ Cmd(<< <<"sudo", "parted", "-s", DevPath(w.dev.name), "mklabel",
              "msdos">> >>)
  /\ \E r \in RunOutcomes :
       CASE r = "ok" ->
              /\ Report(<<win_checkpoint("table"),
                          win_checkpoint("partition")>>)
              /\ w' = [w EXCEPT !.pc = "win_mkpart"]
              /\ UNCHANGED log
         [] r = "nonzero" ->
              /\ Report(<<win_checkpoint("table")>>)
              /\ Log({"Partitioning failed"})
              /\ w' = [w EXCEPT !.pc = win_partition_failed_pc("win_mkpart")]
         [] OTHER ->
              /\ Report(<<win_checkpoint("table")>>)
              /\ w' = Raised("write_windows_iso_to_device")
              /\ Log({FailureTag(w.op)})
  /\ UNCHANGED <<ui, mount_threads, called, ops, aux>>

win_mkpart ==
  /\ w.pc = "win_mkpart"
  /\ \E r \in RunOutcomes, pp \in BOOLEAN, ppx \in BOOLEAN, bd \in BOOLEAN,
        bdx \in BOOLEAN :
       LET mkpart == <<"sudo", "parted", "-s", DevPath(w.dev.name), "mkpart",
                       "primary", "0%", "100%">>
       IN CASE r = "ok" ->
                 /\ Cmd(<<mkpart>> \o
                        probe_partition_table(DevPath(w.dev.name),
                                              pp, ppx, bd, bdx).cmds)
                 /\ w' = [w EXCEPT !.pc = "win_find"]
                 /\ UNCHANGED log
            [] r = "nonzero" ->
                 /\ Cmd(<<mkpart>>)
                 /\ Log({"Partitioning failed"})
                 /\ w' = [w EXCEPT !.pc = win_partition_failed_pc("win_find")]
            [] OTHER ->
                 /\ Cmd(<<mkpart>>)
                 /\ w' = Raised("write_windows_iso_to_device")
                 /\ Log({FailureTag(w.op)})
  /\ UNCHANGED <<ui, afterq, mount_threads, called, sink, ops, aux>>

\* progress 20, then the call of find_first_partition
win_find ==
  /\ w.pc = "win_find"
  /\ Report(<<win_checkpoint("format")>>)
  /\ called' = called \cup {"find_first_partition"}
  /\ LET part == find_first_partition(w.dev.name) IN
     IF part = "NameError"
       THEN /\ w' = Raised("find_first_partition")
            /\ Log({FailureTag(w.op)})
     ELSE IF part = ""
       THEN /\ w' = [w EXCEPT !.pc = "win_success"]
            /\ Log({"Failed to find partition after creation"})
     ELSE /\ w' = [w EXCEPT !.pc = "win_mkfs", !.newp = part]
          /\ UNCHANGED log
  /\ UNCHANGED <<ui, mount_threads, cmds, ops, aux>>

\* back in worker(): log_success
win_success ==
  /\ w.pc = "win_success"
  /\ Log({"Windows ISO written successfully to"})
  /\ w' = [w EXCEPT !.pc = "w_finally"]
  /\ UNCHANGED <<ui, afterq, mount_threads, cmds, called, sink, ops, aux>>

(* -------------------- callbacks run by the main loop -------------------- *)
\* _set of set_progress
cb_set ==
  /\ afterq # <<>>
  /\ Head(afterq).fn = "_set"
  /\ progress' = Head(afterq).pct
  /\ afterq' = Tail(afterq)
  /\ UNCHANGED <<operation_in_progress, btn, has_devs, devs, lb, w,
                 mount_threads, cmds, called, sink, log, ops, aux>>

\* a finish that leaves the progress bar alone
finish_progress_none == <<>>

\* the progress report finish / finish_all open with
finish_progress == <<100>>

\* finish, finish_all and the finish of the Windows worker
cb_finish ==
  /\ afterq # <<>>
  /\ Head(afterq).fn \in {"finish", "finish_all", "finish_windows"}
  /\ afterq' = set_progress_all(Tail(afterq), finish_progress)
  /\ btn' = AllButtons("normal")
  /\ operation_in_progress' = FALSE
  /\ UNCHANGED <<progress, has_devs, devs, lb, w, mount_threads, cmds,
                 called, sink, log, ops, aux>>

\* ask_mount: the target is the first partition of the device record, or
\* else what find_first_partition returns (the NameError ends the callback)
cb_ask_mount ==
  /\ afterq # <<>>
  /\ Head(afterq).fn = "ask_mount"
  /\ afterq' = Tail(afterq)
  /\ \E ok \in BOOLEAN :
       LET pn == part_names(Head(afterq).dev.children)
           target == IF pn # <<>> THEN pn[1]
                     ELSE find_first_partition(Head(afterq).dev.name)
       IN IF ok /\ target \notin {"NameError", ""}
            THEN mount_threads' = mount_threads + 1
            ELSE UNCHANGED mount_threads
  /\ UNCHANGED <<operation_in_progress, btn, progress, has_devs, devs, lb,
                 w, cmds, called, sink, log, ops, aux>>

\* the error box posted when no partition was created
cb_showerror ==
  /\ afterq # <<>>
  /\ Head(afterq).fn = "showerror"
  /\ afterq' = Tail(afterq)
  /\ UNCHANGED <<operation_in_progress, btn, progress, has_devs, devs, lb,
                 w, mount_threads, cmds, called, sink, log, ops, aux>>

\* mount_thread: mount_first_partition calls find_first_partition before
\* anything else and the thread dies of the NameError
mount_thread ==
  /\ mount_threads > 0
  /\ mount_threads' = mount_threads - 1
  /\ UNCHANGED <<ui, afterq, w, cmds, called, sink, log, ops, aux>>

(* ------------------ build_mkfs_command on its own ---------------------- *)
\* mkfs binaries, filesystem keys (those of FS_CANDIDATES, one a known
\* prefix begins, two no branch knows), device paths, labels
MkfsTools == {"mkfs.ext4", "mkfs.fat", "mkntfs"}
MkfsKeys ==
  {"ext4", "vfat (FAT32)", "exfat", "ntfs", "xfs", "btrfs", "ext4dev",
   "f2fs", "f2fs (flash)"}
MkfsDevPaths == {"/dev/sda1", "/dev/sdb"}
MkfsLabels == {"", "USB"}

MkfsInit ==
  /\ InitApp
  /\ \E t \in MkfsTools, k \in MkfsKeys, d \in MkfsDevPaths,
        l \in MkfsLabels :
       call = [fn |-> "build_mkfs_command", args |-> <<t, k, d, l>>,
               ret |-> <<>>]

build_mkfs_command_call ==
  /\ call.fn = "build_mkfs_command"
  /\ call.ret = <<>>
  /\ call' = [call EXCEPT !.ret = build_mkfs_command(call.args[1],
                                     call.args[2], call.args[3],
                                     call.args[4])]
  /\ UNCHANGED <<ui, afterq, w, mount_threads, cmds, called, sink, log, ops,
                 worker_wrote, ui_cmd>>

MkfsSpec == MkfsInit /\ [][build_mkfs_command_call]_vars

(* ------------------- get_block_devices on its own ---------------------- *)
\* top-level nodes in one lsblk tree
MaxTop == 2
\* the values of lsblk's TYPE column the trees are built from
ListTypes == {"disk", "part", "loop"}
ListLeaves ==
  { [name |-> "sdb1", type |-> t, children |-> <<>>] : t \in ListTypes }
ListNodes ==
  { [name |-> "sdb", type |-> t, children |-> cs] :
      t \in ListTypes, cs \in {<<>>} \cup { <<c>> : c \in ListLeaves } }
ListTrees == UNION { [1..n -> ListNodes] : n \in 0..MaxTop }
ListOutputs ==
  { [kind |-> k, tree |-> <<>>] : k \in LsblkFailures }
    \cup { [kind |-> "ok", tree |-> t] : t \in ListTrees }

ListInit ==
  /\ InitApp
  /\ \E out \in ListOutputs :
       call = [fn |-> "get_block_devices", args |-> <<out>>, ret |-> <<>>]

get_block_devices_call ==
  /\ call.fn = "get_block_devices"
  /\ call.ret = <<>>
  /\ call' = [call EXCEPT !.ret = <<get_block_devices(call.args[1])>>]
  /\ UNCHANGED <<ui, afterq, w, mount_threads, cmds, called, sink, log, ops,
                 worker_wrote, ui_cmd>>

ListSpec == ListInit /\ [][get_block_devices_call]_vars

(* ------------------ the read loop of run_format on its own ------------- *)
\* turns of the read loop in one run of mkfs
MaxTurns == 40

\* the loop's locals after Popen: pct, the lines readline has returned,
\* the turns taken, the last value given to progress_cb, and whether the
\* loop still runs, was left because poll() saw the exit, or raised
RfLoopInit ==
  /\ InitApp
  /\ call = [fn |-> "run_format", args |-> <<>>,
             ret |-> <<[pct |-> 60, lines |-> 0, turns |-> 0,
                        reported |-> 60, at |-> "loop"]>>]

\* one turn: readline returns a line or "" (end of file), or raises; then
\* poll() finds the process running, and pct is bumped and reported, or
\* finds it exited, and 100 is reported after communicate()
run_format_read ==
  /\ call.fn = "run_format"
  /\ call.ret[1].at = "loop"
  /\ call.ret[1].turns < MaxTurns
  /\ LET l == call.ret[1] IN
     \E line \in BOOLEAN, then \in {"running", "exited", "raise"} :
       /\ then = "raise" => ~line
       /\ call' = [call EXCEPT !.ret = <<
            [pct |-> IF then = "running" THEN Min(95, l.pct + 1) ELSE l.pct,
             lines |-> IF line THEN l.lines + 1 ELSE l.lines,
             turns |-> l.turns + 1,
             reported |-> IF then = "running" THEN Min(95, l.pct + 1)
                          ELSE 100,
             at |-> IF then = "running" THEN "loop"
                    ELSE IF then = "exited" THEN "exited" ELSE "raised"] >>]
  /\ UNCHANGED <<ui, afterq, w, mount_threads, cmds, called, sink, log, ops,
                 worker_wrote, ui_cmd>>

RfLoopSpec == RfLoopInit /\ [][run_format_read]_vars

(* ------------------ probe_partition_table on its own ------------------- *)
\* the device path, whether shutil.which finds partprobe, whether running
\* it raises, and the same for blockdev
ProbeDevPaths == {"/dev/sda", "/dev/sdb"}
ProbeInit ==
  /\ InitApp
  /\ \E d \in ProbeDevPaths, pp \in BOOLEAN, ppx \in BOOLEAN,
        bd \in BOOLEAN, bdx \in BOOLEAN :
       call = [fn |-> "probe_partition_table",
               args |-> <<d, pp, ppx, bd, bdx>>, ret |-> <<>>]

probe_partition_table_call ==
  /\ call.fn = "probe_partition_table"
  /\ call.ret = <<>>
  /\ call' = [call EXCEPT !.ret = <<probe_partition_table(call.args[1],
                 call.args[2], call.args[3], call.args[4], call.args[5])>>]
  /\ UNCHANGED <<ui, afterq, w, mount_threads, cmds, called, sink, log, ops,
                 worker_wrote, ui_cmd>>

ProbeSpec == ProbeInit /\ [][probe_partition_table_call]_vars

(* ------------------- the checksum lookups on their own ----------------- *)
\* lines in one scanned text
MaxTextLines == 2
ScanLines == { Line(h, named) : h \in {"", HIso, HOther}, named \in BOOLEAN }
ScanTexts == UNION { [1..n -> ScanLines] : n \in 0..MaxTextLines }

\* the search page with one candidate document behind it, and a directory
\* holding <image>.sha256
ScanInit ==
  /\ InitApp
  /\ \/ \E page \in ScanTexts, txt \in ScanTexts :
          call = [fn |-> "fetch_online_sha256",
                  args |-> <<[ok |-> TRUE, page |-> page,
                              docs |-> <<Doc(TRUE, txt)>>]>>,
                  ret |-> <<>>]
     \/ \E txt \in ScanTexts :
          call = [fn |-> "find_checksum_file",
                  args |-> <<[exact |-> <<File("ubuntu.iso.sha256", TRUE,
                                               TRUE, txt)>>,
                              listable |-> TRUE, files |-> <<>>]>>,
                  ret |-> <<>>]

fetch_online_sha256_call ==
  /\ call.fn = "fetch_online_sha256"
  /\ call.ret = <<>>
  /\ call' = [call EXCEPT !.ret = <<fetch_online_sha256(call.args[1])>>]
  /\ UNCHANGED <<ui, afterq, w, mount_threads, cmds, called, sink, log, ops,
                 worker_wrote, ui_cmd>>

find_checksum_file_call ==
  /\ call.fn = "find_checksum_file"
  /\ call.ret = <<>>
  /\ call' = [call EXCEPT !.ret = <<find_checksum_file(call.args[1]).hash>>]
  /\ UNCHANGED <<ui, afterq, w, mount_threads, cmds, called, sink, log, ops,
                 worker_wrote, ui_cmd>>

ScanSpec ==
  ScanInit /\ [][fetch_online_sha256_call \/ find_checksum_file_call]_vars

(* ------- write_windows_iso_to_device from Step 4 on, on its own -------- *)
\* Lines 858-954 as they are written, entered with the partition name that
\* find_first_partition is meant to return. The call at line 826 raises
\* instead (see find_first_partition), so Spec never gets here; this part
\* of the function is modelled apart, from the state in which the partition
\* has been formatted and 30 has been reported and applied.
win_part(devname) == IF devname = "sda" THEN "sda1" ELSE "sdb1"
\* f"/tmp/usb_windows_{part}" and f"/tmp/iso_mount_{part}"
usb_mp(part) ==
  IF part = "sda1" THEN "/tmp/usb_windows_sda1" ELSE "/tmp/usb_windows_sdb1"
iso_mount_mp(part) ==
  IF part = "sda1" THEN "/tmp/iso_mount_sda1" ELSE "/tmp/iso_mount_sdb1"
\* f"{iso_mp}/." and f"{mp}/"
cp_src(part) ==
  IF part = "sda1" THEN "/tmp/iso_mount_sda1/." ELSE "/tmp/iso_mount_sdb1/."
cp_dst(part) ==
  IF part = "sda1" THEN "/tmp/usb_windows_sda1/" ELSE "/tmp/usb_windows_sdb1/"

\* the two umounts of the "except Exception" handler at lines 929-934
win_cleanup(part) ==
  << <<"sudo", "umount", iso_mount_mp(part)>>,
     <<"sudo", "umount", usb_mp(part)>> >>

WinTailInit ==
  /\ operation_in_progress = TRUE
  /\ btn = AllButtons("disabled")
  /\ progress = 30
  /\ has_devs = TRUE
  /\ devs = walk(<<DiskP, DiskN>>)
  /\ lb = RowsOf(devs)
  /\ afterq = <<>>
  /\ mount_threads = 0
  /\ cmds = <<>>
  /\ called = {"write_windows_iso_to_device", "find_first_partition"}
  /\ sink = 30
  /\ log = {}
  /\ ops = 1
  /\ worker_wrote = {"operation_in_progress"}
  /\ ui_cmd = LSBLK_CMD
  /\ call = NoCall
  /\ \E i \in 1..Len(devs), iso \in {p \in WinIsoPaths : isfile(p)},
        iso_size \in IsoSizes :
       w = [Idle EXCEPT !.pc = "win_mount", !.op = "windows",
                        !.dev = devs[i], !.iso = iso,
                        !.iso_size = iso_size, !.fs_key = fs_type(iso_size),
                        !.newp = win_part(devs[i].name)]

\* Step 4: make the mount point and mount the partition, report 35
win_mount ==
  /\ w.pc = "win_mount"
  /\ \E made \in BOOLEAN, r \in RunOutcomes :
       IF ~made
         THEN /\ w' = Raised("write_windows_iso_to_device")
              /\ Log({FailureTag(w.op)})
              /\ UNCHANGED <<afterq, sink, cmds>>
         ELSE /\ Cmd(<< <<"sudo", "mount", DevPath(w.newp),
                          usb_mp(w.newp)>> >>)
              /\ CASE r = "ok" ->
                        /\ Report(<<35>>)
                        /\ w' = [w EXCEPT !.pc = "win_iso_mount",
                                   !.mounted = w.mounted \cup {usb_mp(w.newp)}]
                        /\ UNCHANGED log
                   [] r = "nonzero" ->
                        /\ Log({"Mount failed"})
                        /\ w' = [w EXCEPT !.pc = "win_success"]
                        /\ UNCHANGED <<afterq, sink>>
                   [] OTHER ->
                        /\ w' = Raised("write_windows_iso_to_device")
                        /\ Log({FailureTag(w.op)})
                        /\ UNCHANGED <<afterq, sink>>
  /\ UNCHANGED <<ui, mount_threads, called, ops, aux>>

\* Step 5, first half: make the mount point of the image and loop-mount
\* the image, with -t iso9660 when the first mount exits non-zero; report
\* 40. An exception other than CalledProcessError goes to the handler at
\* 929-934, which unmounts both mount points and returns
win_iso_mount ==
  /\ w.pc = "win_iso_mount"
  /\ \E made \in BOOLEAN, r1 \in RunOutcomes, r2 \in RunOutcomes :
       LET loop == <<"sudo", "mount", "-o", "loop", w.iso,
                     iso_mount_mp(w.newp)>>
           typed == <<"sudo", "mount", "-t", "iso9660", "-o", "loop", w.iso,
                      iso_mount_mp(w.newp)>>
           ran == IF ~made THEN <<>>
                  ELSE IF r1 = "nonzero" THEN <<loop, typed>> ELSE <<loop>>
           res == IF ~made THEN "oserror"
                  ELSE IF r1 = "nonzero" THEN r2 ELSE r1
       IN CASE res = "ok" ->
                 /\ Cmd(ran)
                 /\ Report(<<40>>)
                 /\ w' = [w EXCEPT !.pc = "win_copy",
                            !.mounted = w.mounted
                                          \cup {iso_mount_mp(w.newp)}]
                 /\ UNCHANGED log
            [] res = "nonzero" ->
                 /\ Cmd(ran)
                 /\ Log({"ISO mount failed"})
                 /\ w' = [w EXCEPT !.pc = "win_success"]
                 /\ UNCHANGED <<afterq, sink>>
            [] OTHER ->
                 /\ Cmd(ran \o win_cleanup(w.newp))
                 /\ Log({"Error during file copy process"})
                 /\ w' = [w EXCEPT !.pc = "win_success"]
                 /\ UNCHANGED <<afterq, sink>>
  /\ UNCHANGED <<ui, mount_threads, called, ops, aux>>

\* Step 5, second half: cp -r with a timeout of one hour; a non-zero exit
\* is logged and the function goes on; report 90 and unmount the image
win_copy ==
  /\ w.pc = "win_copy"
  /\ \E r \in {"ok", "nonzero", "timeout", "oserror"},
        u \in {"done", "oserror"} :
       LET cp == <<"sudo", "cp", "-r", cp_src(w.newp), cp_dst(w.newp)>>
           umount_iso == <<"sudo", "umount", iso_mount_mp(w.newp)>>
       IN IF r \in {"timeout", "oserror"}
            THEN /\ Cmd(<<cp>>)
                 /\ Log({ IF r = "timeout" THEN "File copy timed out"
                          ELSE "Error copying files" })
                 /\ w' = [w EXCEPT !.pc = "win_success"]
                 /\ UNCHANGED <<afterq, sink>>
            ELSE /\ Report(<<90>>)
                 /\ IF u = "done"
                      THEN /\ Cmd(<<cp, umount_iso>>)
                           /\ Log({ IF r = "ok" THEN "Files copied successfully"
                                    ELSE "Copy failed" })
                           /\ w' = [w EXCEPT !.pc = "win_sync"]
                      ELSE /\ Cmd(<<cp, umount_iso>> \o win_cleanup(w.newp))
                           /\ Log({ IF r = "ok" THEN "Files copied successfully"
                                    ELSE "Copy failed",
                                    "Error during file copy process" })
                           /\ w' = [w EXCEPT !.pc = "win_success"]
  /\ UNCHANGED <<ui, mount_threads, called, ops, aux>>

\* Step 6: report 95, sync, unmount the partition, report 100
win_sync ==
  /\ w.pc = "win_sync"
  /\ \E r1 \in RunOutcomes, r2 \in RunOutcomes :
       LET sync == <<"sudo", "sync">>
           umount_mp == <<"sudo", "umount", usb_mp(w.newp)>>
           ran == IF r1 = "ok" THEN <<sync, umount_mp>> ELSE <<sync>>
           res == IF r1 = "ok" THEN r2 ELSE r1
       IN /\ Cmd(ran)
          /\ CASE res = "ok" ->
                    /\ Report(<<95, 100>>)
                    /\ Log({"Windows ISO written successfully!"})
                    /\ w' = [w EXCEPT !.pc = "win_success"]
               [] res = "nonzero" ->
                    /\ Report(<<95>>)
                    /\ Log({"Unmount/sync failed"})
                    /\ w' = [w EXCEPT !.pc = "win_success"]
               [] OTHER ->
                    /\ Report(<<95>>)
                    /\ w' = Raised("write_windows_iso_to_device")
                    /\ Log({FailureTag(w.op)})
  /\ UNCHANGED <<ui, mount_threads, called, ops, aux>>

WinTailNext == win_mount \/ win_iso_mount \/ win_copy \/ win_sync \/ win_success
WinTailSpec == WinTailInit /\ [][WinTailNext]_vars

(* --------------------------- specification ----------------------------- *)
Worker ==
  \/ fmt_begin \/ csp_unmount \/ csp_mklabel \/ csp_mkpart \/ csp_probe
  \/ csp_find \/ fmt_check_newp \/ rf_begin \/ rf_popen \/ rf_loop
  \/ rf_exit \/ fmt_success
  \/ iso_sha \/ iso_online \/ iso_local \/ wi_begin \/ wi_popen \/ wi_loop
  \/ wi_exit \/ iso_ask
  \/ win_begin \/ win_mklabel \/ win_mkpart \/ win_find \/ win_success
  \/ w_finally

Callback == cb_set \/ cb_finish \/ cb_ask_mount \/ cb_showerror

Next ==
  \/ refresh \/ on_format \/ on_write_iso \/ on_write_windows_iso
  \/ Callback \/ Worker \/ mount_thread

Spec == Init /\ [][Next]_vars

\* threads are scheduled and the main loop runs the callbacks posted to it
FairSpec ==
  Spec /\ WF_vars(Worker) /\ WF_vars(Callback) /\ WF_vars(mount_thread)

(* ------------------------------ properties ----------------------------- *)
HasMkfs(cs) ==
  \E i \in 1..Len(cs) :
    Len(cs[i]) >= 2 /\ cs[i][2] \in {"mkfs.ext4", "mkfs.vfat", "mkfs"}
Running == w.pc # "idle"

\* C1: a request (on_format, on_write_iso, on_write_windows_iso) made while
\* operation_in_progress is True starts no thread, issues no command and
\* leaves the flag, the buttons and the progress value (shown and pending)
\* as they are.
C1_RequestRefusedWhileBusy ==
  [][(operation_in_progress
        /\ (on_format \/ on_write_iso \/ on_write_windows_iso))
       => UNCHANGED <<operation_in_progress, btn, progress, afterq, w,
                      mount_threads, cmds, ops>>]_vars

\* the worker of an operation is running, the list shows the devices and
\* one more operation is within the bound: a request made here would start
\* one if the flag were not looked at
C1_Witness ==
  /\ operation_in_progress /\ Running /\ ops < MaxOps
  /\ has_devs /\ lb = RowsOf(devs) /\ devs # <<>>

\* C2: an operation never starts while a thread started by an earlier
\* operation (its worker or its post-write mount thread) is still running.
C2_NoStartWhileThreadRuns ==
  [][(ops' = ops + 1) => (~Running /\ mount_threads = 0)]_vars

\* C3: once the flag is set and the three buttons are disabled, the flag is
\* eventually reset and the three buttons are enabled again.
C3_EventuallyRestored ==
  (operation_in_progress /\ btn = AllButtons("disabled"))
    ~> (~operation_in_progress /\ btn = AllButtons("normal"))

\* an operation has run, its callbacks have run, and the form is usable
C3_Witness ==
  /\ ops > 0 /\ ~Running /\ afterq = <<>>
  /\ ~operation_in_progress /\ btn = AllButtons("normal")

\* C4: when every operation started has ended and the callbacks it posted
\* have run, the progress bar shows 100.
C4_ProgressEndsAt100 ==
  (ops > 0 /\ ~Running /\ afterq = <<>>) => progress = 100

\* the bar shows 100 after the last operation that could be started
C4_Witness ==
  ops = MaxOps /\ ~Running /\ afterq = <<>> /\ progress = 100

\* C5: when run_format or write_iso_to_device has returned, the last value
\* it passed to the progress sink is 100.
C5_LastReportIs100 ==
  w.pc \in {"fmt_success", "iso_ask"}
    => sink = 100

\* run_format has returned after mkfs exited with a non-zero code
C5_Witness ==
  w.pc = "fmt_success" /\ "Format failed with exit code" \in log

\* C6: whatever the checksum phase finds, the worker of a Linux ISO write
\* has called write_iso_to_device by the time it ends.
C6_WriteAlwaysInvoked ==
  (w.op = "iso" /\ w.pc = "w_finally") => "write_iso_to_device" \in called

\* C7: neither fetch_online_sha256 nor find_checksum_file raises.
C7_LookupNeverRaises ==
  w.exc \notin {"fetch_online_sha256", "find_checksum_file"}

\* C8: while create_single_partition has yielded no partition (it is still
\* running, it returned None, or it raised), the format operation has run
\* no mkfs command.
C8_NoMkfsWithoutPartition ==
  (Running /\ "create_single_partition" \in called /\ w.newp = "")
    => ~HasMkfs(cmds)

\* create_single_partition returned None and the worker has ended
C8_Witness ==
  /\ w.pc = "w_finally" /\ w.op = "format" /\ w.exc = ""
  /\ "Failed to create partition" \in log

C10_ReturnsFirstPartition ==
  (w.op = "format" /\ "find_first_partition" \in called) => w.exc = ""

\* an external command whose tool is t was issued
HasTool(cs, t) == \E i \in 1..Len(cs) : Len(cs[i]) >= 2 /\ cs[i][2] = t

\* the place of an external command among the steps of
\* write_windows_iso_to_device: 1 unmount children, 2 partition table,
\* 3 partition, 4 probe, 5 format, 6 mount partition, 7 loop-mount image,
\* 8 copy, 9 unmount image, 10 sync, 11 unmount partition
WinStep(c) ==
  CASE c[1] = "lsblk" -> 1
    [] c[2] = "umount" /\ c[3] \in {"/dev/sda", "/dev/sda1", "/dev/sdb"} -> 1
    [] c[2] = "parted" /\ c[5] = "mklabel" -> 2
    [] c[2] = "parted" /\ c[5] = "mkpart" -> 3
    [] c[2] \in {"partprobe", "blockdev"} -> 4
    [] c[2] \in {"mkfs.exfat", "mkfs.vfat"} -> 5
    [] c[2] = "mount" /\ c[3] # "-o" /\ c[3] # "-t" -> 6
    [] c[2] = "mount" -> 7
    [] c[2] = "cp" -> 8
    [] c[2] = "umount" /\ c[3] = "/tmp/iso_mount" -> 9
    [] c[2] = "sync" -> 10
    [] OTHER -> 11

\* C11: a Windows install that got its partition table written formats the
\* partition, as exFAT when the image is larger than 4 GiB and as FAT32
\* when it is not.
C11_ExfatAboveFourGiB ==
  (w.op = "windows" /\ w.pc = "w_finally"
     /\ "find_first_partition" \in called)
    => IF Less(FourGiB, w.iso_size) THEN HasTool(cmds, "mkfs.exfat")
       ELSE HasTool(cmds, "mkfs.vfat")

WinFailures ==
  {"Error getting ISO size", "Partitioning failed",
   "Failed to find partition after creation", FailureTag("windows")}

MkfsFamily(k) ==
  CASE k \in {"ext4", "ext4dev"} -> "ext4"
    [] k = "vfat (FAT32)" -> "vfat"
    [] k \in {"exfat", "ntfs", "xfs", "btrfs"} -> k
    [] OTHER -> "unrecognized"
MkfsForce(f) ==
  CASE f = "ext4" -> <<"-F">>
    [] f = "vfat" -> <<"-F", "32">>
    [] f \in {"xfs", "btrfs"} -> <<"-f">>
    [] OTHER -> <<>>
MkfsLabelFlag(f) == IF f \in {"vfat", "exfat"} THEN "-n" ELSE "-L"
\* the argument list of the table, with word in the place of the key
MkfsDocumented(tool, k, word, d, l) ==
  IF MkfsFamily(k) = "unrecognized" THEN <<"sudo", "mkfs", "-t", word, d>>
  ELSE <<"sudo", tool>> \o MkfsForce(MkfsFamily(k))
         \o (IF l = "" THEN <<>> ELSE <<MkfsLabelFlag(MkfsFamily(k)), l>>)
         \o <<d>>
MkfsReturned == call.fn = "build_mkfs_command" /\ call.ret # <<>>

ListReturned == call.fn = "get_block_devices" /\ call.ret # <<>>
IsDisk(n) == n.type = "disk"
TopLevelDisks(tree) == SelectSeq(tree, IsDisk)

\* C15: for every device tree lsblk prints, get_block_devices returns
\* exactly the top-level nodes of type "disk", in order, so no node nested
\* below another node is returned as a device
C15_OnlyTopLevelDisks ==
  (ListReturned /\ call.args[1].kind = "ok")
    => call.ret[1].devices = TopLevelDisks(call.args[1].tree)


C17_SuccessOnlyOnSuccess ==
  /\ "Successfully formatted" \in log
       => "Format completed successfully" \in log
  /\ "Windows ISO written successfully to" \in log
       => log \cap WinFailures = {}
  /\ (w.op = "iso" /\ w.pc = "w_finally" /\ w.exc = "")
       => "ISO written successfully" \in log


(* ------------------------------ C18 ------------------------------------ *)
\* C18: no worker thread assigns operation_in_progress or the device list;
\* both are written on the foreground thread only
C18_WorkersNeverWrite ==
  worker_wrote \cap {"operation_in_progress", "devs"} = {}


(* ------------------------------ C19 ------------------------------------ *)
\* C19: the foreground thread never runs an external command itself, in
\* any handler or posted callback; every command is run by a worker thread
C19_NoCommandOnUiThread ==
  ui_cmd = <<>>


(* ------------------------------ C20 ------------------------------------ *)
InCreate ==
  /\ w.op = "format" /\ "create_single_partition" \in called
  /\ "run_format" \notin called
Mklabel(c) == Len(c) = 6 /\ c[2] = "parted" /\ c[5] = "mklabel"
Mkpart(c) == Len(c) = 8 /\ c[2] = "parted" /\ c[5] = "mkpart"
\* parted mklabel was run and did not succeed
MklabelFailed ==
  /\ InCreate /\ w.pc # "csp_mkpart"
  /\ cmds # <<>> /\ Mklabel(cmds[Len(cmds)])

\* C20: create_single_partition runs its steps in order: the children are
\* unmounted, then parted mklabel with the requested style (msdos or gpt),
\* then parted mkpart primary 0% 100%, then the re-probe, then
\* find_first_partition is called; when mklabel fails no mkpart is issued
\* and no partition is yielded, and when it fails by exiting with a
\* non-zero code the function returns None
C20_PartitionStepsInOrder ==
  /\ [](InCreate =>
         /\ \A i \in 1..Len(cmds) :
              /\ WinStep(cmds[i]) <= 4
              /\ \A j \in 1..(i - 1) : WinStep(cmds[j]) <= WinStep(cmds[i])
              /\ \A st \in 1..(WinStep(cmds[i]) - 1) :
                   \E j \in 1..(i - 1) : WinStep(cmds[j]) = st
              /\ WinStep(cmds[i]) = 2 =>
                   cmds[i] = <<"sudo", "parted", "-s", DevPath(w.dev.name),
                               "mklabel", w.label_type>>
              /\ WinStep(cmds[i]) = 3 =>
                   cmds[i] = <<"sudo", "parted", "-s", DevPath(w.dev.name),
                               "mkpart", "primary", "0%", "100%">>
         /\ w.label_type \in {"msdos", "gpt"}
         /\ "find_first_partition" \in called =>
              "probe_partition_table" \in called
         /\ "probe_partition_table" \in called =>
              \E i \in 1..Len(cmds) : Mkpart(cmds[i]))
  /\ [](MklabelFailed =>
         /\ w.newp = ""
         /\ \A i \in 1..Len(cmds) : ~Mkpart(cmds[i])
         /\ "Partitioning failed" \in log =>
              w.exc = "" /\ w.pc \in {"fmt_check_newp", "w_finally"})
  /\ [][(w.op = "format" /\ "Partitioning failed" \in log)
          => Len(cmds') <= Len(cmds)]_vars

\* create_single_partition has returned None after mklabel exited with a
\* non-zero code, the children having been unmounted first
C20_Witness ==
  /\ MklabelFailed /\ "Partitioning failed" \in log
  /\ w.pc = "fmt_check_newp" /\ Len(cmds) >= 2 /\ WinStep(cmds[1]) = 1


(* ------------------------------ C21 ------------------------------------ *)
\* C21: within one operation the values delivered to the progress sink
\* never decrease
C21_ProgressMonotonic ==
  [][sink' # NoReport => sink' >= sink]_vars

(* ------------------------------ C22 ------------------------------------ *)
\* values a caller could hand to set_progress
PctInputs == {-100, -1, 0, 1, 50, 99, 100, 101, 150, 1000}

\* C22: set_progress maps every value below 0 to 0, every value above 100
\* to 100 and leaves the others alone, so the value shown by the progress
\* bar and every value waiting to be applied to it lies in 0..100
C22_ProgressInRange ==
  /\ \A p \in PctInputs :
       LET q == set_progress(<<>>, p) IN
       /\ Len(q) = 1 /\ q[1].fn = "_set"
       /\ q[1].pct = (IF p < 0 THEN 0 ELSE IF p > 100 THEN 100 ELSE p)
  /\ progress \in 0..100
  /\ \A i \in 1..Len(afterq) :
       afterq[i].fn = "_set" => afterq[i].pct \in 0..100

\* dd or pv has printed a line carrying more than 100 percent, and the
\* value it led to has been applied to the bar
C22_Witness ==
  /\ w.op = "iso" /\ w.pc = "wi_loop" /\ w.n > 0 /\ sink = 100
  /\ progress = 100 /\ afterq = <<>>


(* ------------------------------ C23 ------------------------------------ *)
\* C23: while mkfs runs, run_format has reported 60 plus one point for
\* every output line received, and never more than 95; it reports 100 only
\* once the loop has been left (the process has exited, or an error)
C23_OnePointPerLine ==
  call.fn = "run_format" =>
    LET l == call.ret[1] IN
    /\ l.at = "loop" => l.reported = Min(95, 60 + l.lines)
    /\ l.reported <= 95 \/ l.at # "loop"


(* ------------------------------ C24 ------------------------------------ *)
ProbeReturned == call.fn = "probe_partition_table" /\ call.ret # <<>>
IsPartprobe(c) == c[2] = "partprobe"
IsBlockdev(c) == c[2] = "blockdev"

\* C24: probe_partition_table tries partprobe, then blockdev --rereadpt,
\* then a fixed wait: blockdev is run only if partprobe is absent or
\* running it raised and never before partprobe, the wait is used only if
\* neither tool completed, exactly one of the three completes, and the
\* value is True
C24_ProbeFallbackOrder ==
  ProbeReturned =>
    LET d == call.args[1]
        pp == call.args[2]  ppx == call.args[3]
        bd == call.args[4]  bdx == call.args[5]
        r == call.ret[1]
        ran(P(_)) == \E i \in 1..Len(r.cmds) : P(r.cmds[i])
    IN /\ r.ret = TRUE
       /\ r.by \in {"partprobe", "blockdev", "sleep"}
       /\ \A i \in 1..Len(r.cmds) :
            /\ r.cmds[i] \in { <<"sudo", "partprobe", d>>,
                               <<"sudo", "blockdev", "--rereadpt", d>> }
            /\ IsPartprobe(r.cmds[i]) => i = 1
            /\ IsBlockdev(r.cmds[i]) => i = Len(r.cmds)
       /\ ran(IsPartprobe) <=> pp
       /\ ran(IsBlockdev) <=> (bd /\ (~pp \/ ppx))
       /\ r.by = "partprobe" <=> (pp /\ ~ppx)
       /\ r.by = "blockdev" <=> (bd /\ ~bdx /\ (~pp \/ ppx))
       /\ r.by = "sleep" <=> ((~pp \/ ppx) /\ (~bd \/ bdx))

\* partprobe was found and raised, and blockdev then completed
C24_Witness ==
  /\ ProbeReturned
  /\ call.args[2] /\ call.args[3] /\ call.args[4] /\ ~call.args[5]
  /\ call.ret[1].by = "blockdev" /\ Len(call.ret[1].cmds) = 2


(* ------------------------------ C25 ------------------------------------ *)
\* the 64-hex tokens on the lines of txt that mention the image
NamedHashes(txt) ==
  { txt[i].hash : i \in { j \in 1..Len(txt) :
                            txt[j].named /\ txt[j].hash # "" } }

\* C25: in the online lookup and in the local scan alike, when a scanned
\* text has a 64-hex token on a line that mentions the image, the token
\* returned is one of those, whatever tokens other lines carry
C25_NamedTokenPreferred ==
  /\ (call.fn = "fetch_online_sha256" /\ call.ret # <<>>) =>
       LET env == call.args[1] IN
       /\ NamedHashes(env.page) # {} => call.ret[1] \in NamedHashes(env.page)
       /\ (FirstHash(env.page) = "" /\ NamedHashes(env.docs[1].txt) # {})
            => call.ret[1] \in NamedHashes(env.docs[1].txt)
  /\ (call.fn = "find_checksum_file" /\ call.ret # <<>>) =>
       LET txt == call.args[1].exact[1].txt IN
       NamedHashes(txt) # {} => call.ret[1] \in NamedHashes(txt)


(* ------------------------------ C26 ------------------------------------ *)
WinCheckpoints == <<5, 10, 15, 20, 30, 35, 40, 90, 95, 100>>
\* how many of the checkpoints have been reported when v was the last
CheckpointsDone(v) ==
  IF \E i \in 1..Len(WinCheckpoints) : WinCheckpoints[i] = v
    THEN CHOOSE i \in 1..Len(WinCheckpoints) : WinCheckpoints[i] = v
    ELSE 0

C27_RowsMatchDevs ==
  \A i \in 1..Len(lb) :
    ~NoSuchDev(i) => lb[i] = device_display(devs[i])


(* ------------------------------ C28 ------------------------------------ *)
\* write_windows_iso_to_device has returned or raised
WinLeft == w.op = "windows" /\ w.pc \in {"win_success", "w_finally"}
Unmounted(m) == \E i \in 1..Len(cmds) : cmds[i] = <<"sudo", "umount", m>>

C29_SuccessNeedsBothExits ==
  (w.op = "iso" /\ "ISO written successfully" \in log) => w.pv_rc # "nonzero"


(* ------------------------------ C30 ------------------------------------ *)
\* C30: an operation, and with it every destructive command, is started on
\* a device only if the user selected that device: the listbox shows a row
\* for it and the handler resolved that row to it (the confirmation dialog
\* then names it); every cancelled dialog leaves the state as it was
C30_OnlySelectedDevice ==
  [][(w.pc = "idle" /\ w'.pc # "idle") =>
       \E i \in 1..Len(lb) :
         /\ ~NoSuchDev(i) /\ devs[i] = w'.dev
         /\ lb[i] = device_display(w'.dev)]_vars


====
